---- MODULE Spec2Model ----
(***************************************************************************)
(* The compression pipeline of the MP3 compressor (App.tsx): engine load,  *)
(* file selection and metadata extraction with the object URL and the      *)
(* AudioContext it opens, preset / custom parameter resolution, the        *)
(* write -> exec -> read -> delete cycle of handleCompress against the     *)
(* engine workspace with the engine's progress events, the size estimate,  *)
(* the result statistics and the download file name.                       *)
(***************************************************************************)
EXTENDS Integers, Sequences, FiniteSets, TLC

\* ------------------------------------------------------------------ bounds
\* Slots for handleFileSelect invocations whose parseAudioInfo is pending.
MaxPending == 2
\* Slots for handleCompress invocations that have not settled.
MaxRuns == 2

\* ----------------------------------------------------------- nullable values
\* A value of type T | null is <<>> (null) or <<v>>.
Null == <<>>
Some(v) == <<v>>
Val(o) == o[1]

\* `if (x)` on a number | null: null and 0 are falsy.
Truthy(o) == o # Null /\ Val(o) # 0

\* Math.round(n / d) for d > 0: floor(n / d + 1/2), for n of either sign
\* (\div rounds down).
Round(n, d) == (2 * n + d) \div (2 * d)

\* Math.abs
Abs(n) == IF n < 0 THEN 0 - n ELSE n

\* ------------------------------------------------------------- the catalog
Preset(id, bitrate, sampleRate, channels) ==
    [id |-> id, bitrate |-> bitrate, sampleRate |-> sampleRate, channels |-> channels]

presets ==
    << Preset("lossless", 320, Null, Some(2)),
       Preset("high", 256, Some(44100), Some(2)),
       Preset("standard", 192, Some(44100), Some(2)),
       Preset("medium", 128, Some(44100), Some(2)),
       Preset("compact", 96, Some(32000), Some(2)),
       Preset("voice", 64, Some(22050), Some(1)),
       Preset("minimal", 32, Some(16000), Some(1)),
       Preset("custom", 128, Some(44100), Some(2)) >>

PresetIds == {presets[i].id : i \in 1..Len(presets)}

\* presets.find(p => p.id === id)!  (the first match)
FindPreset(id) ==
    presets[CHOOSE i \in 1..Len(presets) :
                /\ presets[i].id = id
                /\ \A j \in 1..(i - 1) : presets[j].id # id]

bitrateOptions == {320, 256, 192, 160, 128, 112, 96, 80, 64, 48, 32}
sampleRateOptions == {48000, 44100, 32000, 22050, 16000, 11025}
channelOptions == {2, 1}

\* ------------------------------------------------------- files of the model
\* Strings that the code inspects are sequences of characters.
Mp3Ext == <<".", "m", "p", "3">>
AudioWord == <<"a", "u", "d", "i", "o">>

\* s.endsWith(suffix)
EndsWith(s, suffix) ==
    /\ Len(s) >= Len(suffix)
    /\ SubSeq(s, Len(s) - Len(suffix) + 1, Len(s)) = suffix

\* s.includes(word)
Includes(s, word) ==
    \E i \in 1..(Len(s) - Len(word) + 1) : SubSeq(s, i, i + Len(word) - 1) = word

\* A file: what File holds (name, type, size) and the length in seconds of the
\* audio in it, which the media element reports as audio.duration.
FileA == [name |-> <<"a", ".", "m", "p", "3">>,
          type |-> <<"a", "u", "d", "i", "o", "/", "m", "p", "e", "g">>,
          size |-> 4800000, seconds |-> 240]
FileB == [name |-> <<"b", ".", "m", "p", "3">>,
          type |-> <<>>,
          size |-> 960000, seconds |-> 60]
FileTxt == [name |-> <<"n", ".", "t", "x", "t">>,
            type |-> <<"t", "e", "x", "t", "/", "p", "l", "a", "i", "n">>,
            size |-> 1200, seconds |-> 60]

\* The files the user picks from.
FileInputs == {FileA, FileB, FileTxt}

\* Files of chosen byte size and length, for the numbers derived from them.
SizedFile(size, seconds) ==
    [name |-> <<"s", ".", "m", "p", "3">>,
     type |-> <<"a", "u", "d", "i", "o", "/", "m", "p", "e", "g">>,
     size |-> size, seconds |-> seconds]

SizeInputs == {124, 125, 7990, 10485760}
SecondsInputs == {2, 240}
SizedFiles == {SizedFile(s, d) : s \in SizeInputs, d \in SecondsInputs}

\* What the host reports for a file: audio.duration (seconds), and the
\* sampleRate / numberOfChannels of the decoded AudioBuffer.
Duration(f) == f.seconds
DecodedSampleRate(f) == IF f = FileA THEN 48000 ELSE 22050
DecodedChannels(f) == IF f = FileA THEN 2 ELSE 1

\* ------------------------------------------------------------------- state
VARIABLES
    ffmpeg, loaded, loading,          \* engine instance, ready flag, load pending
    file, fileInfo,                   \* selected file and its metadata
    selectedPreset, customBitrate, customSampleRate, customChannels,
    processing, progress, progressText,
    result, error,
    fs,                               \* the engine workspace: input.mp3 / output.mp3
    extracts,                         \* pending handleFileSelect invocations
    objectUrls,                       \* extractions whose object URL is not revoked
    audioContexts,                    \* extractions whose AudioContext is not closed
    runs,                             \* handleCompress invocations not yet settled
    lastOp                            \* the handler or callback that ran last

vars == << ffmpeg, loaded, loading, file, fileInfo, selectedPreset, customBitrate,
           customSampleRate, customChannels, processing, progress, progressText,
           result, error, fs, extracts, objectUrls, audioContexts, runs, lastOp >>

engineVars == << ffmpeg, loaded, loading >>
paramVars == << selectedPreset, customBitrate, customSampleRate, customChannels >>
runViewVars == << processing, progress, progressText >>
workVars == << fs, runs >>
mediaVars == << extracts, objectUrls, audioContexts >>

Op(name, arg) == [op |-> name, arg |-> arg]

\* useState initial values (lines 99-113); the load effect is pending.
Init ==
    /\ ffmpeg = Null
    /\ loaded = FALSE
    /\ loading = TRUE
    /\ file = Null
    /\ fileInfo = Null
    /\ selectedPreset = "medium"
    /\ customBitrate = 128
    /\ customSampleRate = 44100
    /\ customChannels = 2
    /\ processing = FALSE
    /\ progress = 0
    /\ progressText = ""
    /\ result = Null
    /\ error = Null
    /\ fs = [input |-> Null, output |-> Null]
    /\ extracts = [i \in 1..MaxPending |-> Null]
    /\ objectUrls = {}
    /\ audioContexts = {}
    /\ runs = [i \in 1..MaxRuns |-> Null]
    /\ lastOp = Op("init", <<>>)

\* A load that reports ready whether the engine loaded or not.
LoadFFmpegDone_AlwaysLoaded(ok) ==
    /\ loading
    /\ IF ok
       THEN /\ ffmpeg' = Some("ffmpegInstance")
            /\ error' = error
       ELSE /\ error' = Some(<<"loadEngineFailed">>)
            /\ ffmpeg' = ffmpeg
    /\ loaded' = TRUE
    /\ loading' = FALSE
    /\ lastOp' = Op("loadFFmpeg", <<>>)
    /\ UNCHANGED << file, fileInfo, paramVars, runViewVars, result, workVars, mediaVars >>

\* ------------------------------------------------------------ engine load
\* loadFFmpeg: the awaited load resolves (setFfmpeg, setLoaded) or rejects
\* (setError); finally setLoading(false).
LoadFFmpegDone(ok) ==
    /\ loading
    /\ IF ok
       THEN /\ ffmpeg' = Some("ffmpegInstance")
            /\ loaded' = TRUE
            /\ error' = error
       ELSE /\ error' = Some(<<"loadEngineFailed">>)
            /\ UNCHANGED << ffmpeg, loaded >>
    /\ loading' = FALSE
    /\ lastOp' = Op("loadFFmpeg", <<>>)
    /\ UNCHANGED << file, fileInfo, paramVars, runViewVars, result, workVars, mediaVars >>

\* ------------------------------------------------- metadata extraction
\* A bitrate that drops the fraction instead of rounding.
OriginalBitrate_Truncated(f) == (f.size * 8) \div (Duration(f) * 1000)

\* Math.round((audioFile.size * 8) / duration / 1000)
OriginalBitrate(f) == Round(f.size * 8, Duration(f) * 1000)

\* The FileInfo resolved when decodeAudioData succeeds (lines 183-190).
DecodedInfo(f) ==
    [name |-> f.name, size |-> f.size, duration |-> Duration(f),
     bitrate |-> OriginalBitrate(f),
     sampleRate |-> DecodedSampleRate(f), channels |-> DecodedChannels(f)]

\* A fallback that drops what the coarse phase measured.
FallbackInfo_NoCoarse(f) ==
    [name |-> f.name, size |-> f.size, duration |-> 0, bitrate |-> 0,
     sampleRate |-> 44100, channels |-> 2]

\* The FileInfo resolved when decodeAudioData fails (lines 195-202).
FallbackInfo(f) ==
    [name |-> f.name, size |-> f.size, duration |-> Duration(f),
     bitrate |-> OriginalBitrate(f),
     sampleRate |-> 44100, channels |-> 2]

\* The type guard of handleFileSelect (line 220).
IsAudioFile(f) == Includes(f.type, AudioWord) \/ EndsWith(f.name, Mp3Ext)

FreeExtract == {i \in 1..MaxPending : extracts[i] = Null}
PendingExtracts == {i \in 1..MaxPending : extracts[i] # Null}

\* The upload area and the file input are usable once loading is over.
UploadEnabled == ~loading

\* handleFileSelect up to its await of parseAudioInfo.
HandleFileSelect(f) ==
    /\ lastOp' = Op("handleFileSelect", f.name)
    /\ IF ~IsAudioFile(f)
       THEN /\ error' = Some(<<"pleaseSelectAudio">>)
            /\ UNCHANGED << result, file, mediaVars >>
       ELSE /\ FreeExtract # {}
            /\ error' = Null
            /\ result' = Null
            /\ file' = Some(f)
            /\ LET i == CHOOSE k \in FreeExtract : \A j \in FreeExtract : k <= j
               IN /\ extracts' = [extracts EXCEPT ![i] = Some([pc |-> "coarse", file |-> f])]
                  /\ objectUrls' = objectUrls \cup {i}
                  /\ audioContexts' = audioContexts
    /\ UNCHANGED << engineVars, fileInfo, paramVars, runViewVars, workVars >>

SelectFile(f) == UploadEnabled /\ HandleFileSelect(f)

\* parseAudioInfo rejected: the catch of handleFileSelect (line 233).
ParseRejected(i, message) ==
    /\ error' = Some(<<"parseFileError", message>>)
    /\ extracts' = [extracts EXCEPT ![i] = Null]
    /\ UNCHANGED << engineVars, file, fileInfo, paramVars, runViewVars, result, workVars >>

\* parseAudioInfo resolved: setFileInfo(info) (line 231).
ParseResolved(i, info) ==
    /\ fileInfo' = Some(info)
    /\ extracts' = [extracts EXCEPT ![i] = Null]
    /\ UNCHANGED << engineVars, file, paramVars, runViewVars, result, error, workVars >>

\* audio.onloadedmetadata: duration and bitrate are taken, an AudioContext is
\* created, the reader starts, the object URL is revoked.
CoarseLoaded(i) ==
    /\ extracts[i] # Null /\ Val(extracts[i]).pc = "coarse"
    /\ extracts' = [extracts EXCEPT ![i] = Some([Val(@) EXCEPT !.pc = "read"])]
    /\ audioContexts' = audioContexts \cup {i}
    /\ objectUrls' = objectUrls \ {i}
    /\ lastOp' = Op("onloadedmetadata", Val(extracts[i]).file.name)
    /\ UNCHANGED << engineVars, file, fileInfo, paramVars, runViewVars, result, error,
                    workVars >>

\* audio.onerror: the object URL is revoked, the promise rejected.
CoarseError(i) ==
    /\ extracts[i] # Null /\ Val(extracts[i]).pc = "coarse"
    /\ objectUrls' = objectUrls \ {i}
    /\ audioContexts' = audioContexts
    /\ ParseRejected(i, "cannotParseAudio")
    /\ lastOp' = Op("audio.onerror", Val(extracts[i]).file.name)

\* reader.onload up to its await of decodeAudioData.
ReaderLoaded(i) ==
    /\ extracts[i] # Null /\ Val(extracts[i]).pc = "read"
    /\ extracts' = [extracts EXCEPT ![i] = Some([Val(@) EXCEPT !.pc = "decode"])]
    /\ UNCHANGED << objectUrls, audioContexts >>
    /\ lastOp' = Op("reader.onload", Val(extracts[i]).file.name)
    /\ UNCHANGED << engineVars, file, fileInfo, paramVars, runViewVars, result, error,
                    workVars >>

\* reader.onerror
ReaderError(i) ==
    /\ extracts[i] # Null /\ Val(extracts[i]).pc = "read"
    /\ UNCHANGED << objectUrls, audioContexts >>
    /\ ParseRejected(i, "cannotReadFile")
    /\ lastOp' = Op("reader.onerror", Val(extracts[i]).file.name)

\* audioContext.close() (line 192)
ContextsAfterDecode(i) == audioContexts \ {i}

\* decodeAudioData resolved: resolve, then audioContext.close().
DecodeResolved(i) ==
    /\ extracts[i] # Null /\ Val(extracts[i]).pc = "decode"
    /\ audioContexts' = ContextsAfterDecode(i)
    /\ objectUrls' = objectUrls
    /\ ParseResolved(i, DecodedInfo(Val(extracts[i]).file))
    /\ lastOp' = Op("decodeResolved", Val(extracts[i]).file.name)

\* decodeAudioData rejected: the fallback of the catch.
DecodeRejected(i) ==
    /\ extracts[i] # Null /\ Val(extracts[i]).pc = "decode"
    /\ UNCHANGED << objectUrls, audioContexts >>
    /\ ParseResolved(i, FallbackInfo(Val(extracts[i]).file))
    /\ lastOp' = Op("decodeRejected", Val(extracts[i]).file.name)

\* --------------------------------------------------- parameter selection
\* The preset cards the user clicks, and the values the user tries to put
\* into the three custom selects.
PresetInputs == {"lossless", "custom"}
BitrateInputs == {24, 320}
SampleRateInputs == {8000, 16000}
ChannelInputs == {1, 3}

\* The preset cards and the custom selects react only with a file and no result.
ParamsEnabled == file # Null /\ result = Null

\* onClick of a preset card (line 427).
SelectPreset(id) ==
    /\ ParamsEnabled
    /\ selectedPreset' = id
    /\ lastOp' = Op("selectPreset", <<>>)
    /\ UNCHANGED << engineVars, file, fileInfo, customBitrate, customSampleRate,
                    customChannels, runViewVars, result, error, workVars, mediaVars >>

\* The custom selects are rendered for the custom preset only (line 436).
CustomEnabled == selectedPreset = "custom" /\ ParamsEnabled

\* A bitrate control that takes any number.
BitrateOffered_Any(v) == v = v

\* A <select> yields only the value of one of its <option>s.
BitrateOffered(v) == v \in bitrateOptions
SampleRateOffered(v) == v \in sampleRateOptions
ChannelsOffered(v) == v \in channelOptions

\* The user tries to choose v in the bitrate select (lines 442-450).
ChooseCustomBitrate(v) ==
    /\ CustomEnabled
    /\ customBitrate' = IF BitrateOffered(v) THEN v ELSE customBitrate
    /\ lastOp' = Op("customBitrate", <<v>>)
    /\ UNCHANGED << engineVars, file, fileInfo, selectedPreset, customSampleRate,
                    customChannels, runViewVars, result, error, workVars, mediaVars >>

\* The user tries to choose v in the sample-rate select (lines 454-462).
ChooseCustomSampleRate(v) ==
    /\ CustomEnabled
    /\ customSampleRate' = IF SampleRateOffered(v) THEN v ELSE customSampleRate
    /\ lastOp' = Op("customSampleRate", <<v>>)
    /\ UNCHANGED << engineVars, file, fileInfo, selectedPreset, customBitrate,
                    customChannels, runViewVars, result, error, workVars, mediaVars >>

\* The user tries to choose v in the channels select (lines 466-474).
ChooseCustomChannels(v) ==
    /\ CustomEnabled
    /\ customChannels' = IF ChannelsOffered(v) THEN v ELSE customChannels
    /\ lastOp' = Op("customChannels", <<v>>)
    /\ UNCHANGED << engineVars, file, fileInfo, selectedPreset, customBitrate,
                    customSampleRate, runViewVars, result, error, workVars, mediaVars >>

\* ------------------------------------------------------------ handleCompress
\* The parameters of a run (lines 256-261).
ResolvedBitrate ==
    IF selectedPreset = "custom" THEN customBitrate ELSE FindPreset(selectedPreset).bitrate
\* A resolution that takes the sample rate from the catalog for every preset.
ResolvedSampleRate_FromCatalog == FindPreset(selectedPreset).sampleRate

ResolvedSampleRate ==
    IF selectedPreset = "custom" THEN Some(customSampleRate)
    ELSE FindPreset(selectedPreset).sampleRate
ResolvedChannels ==
    IF selectedPreset = "custom" THEN Some(customChannels)
    ELSE FindPreset(selectedPreset).channels

\* An argument list that forces 44100 where the sample rate is pass-through.
ArgList_ForcedRate(bitrate, sampleRate, channels) ==
    << "-i", "input.mp3", "-b:a", ToString(bitrate) \o "k" >>
    \o << "-ar", IF Truthy(sampleRate) THEN ToString(Val(sampleRate)) ELSE "44100" >>
    \o (IF Truthy(channels) THEN << "-ac", ToString(Val(channels)) >> ELSE << >>)
    \o << "-map", "0:a", "-y", "output.mp3" >>

\* The argument list handed to exec (lines 267-277).
ArgList(bitrate, sampleRate, channels) ==
    << "-i", "input.mp3", "-b:a", ToString(bitrate) \o "k" >>
    \o (IF Truthy(sampleRate) THEN << "-ar", ToString(Val(sampleRate)) >> ELSE << >>)
    \o (IF Truthy(channels) THEN << "-ac", ToString(Val(channels)) >> ELSE << >>)
    \o << "-map", "0:a", "-y", "output.mp3" >>

\* What the engine writes as output.mp3 for the staged input.
Encoded(input, r, complete) ==
    [src |-> input.name, args |-> r.args,
     complete |-> complete,
     size |-> IF complete THEN r.bitrate * 125 * Duration(input) ELSE 0]

FreeRun == {i \in 1..MaxRuns : runs[i] = Null}
InFlight == {i \in 1..MaxRuns : runs[i] # Null}

\* The compress button (lines 506-514).
CompressButtonRendered == file # Null /\ result = Null
\* A compress button that stays enabled during a run.
CompressButtonDisabled_NoProcessing == ~loaded

CompressButtonDisabled == processing \/ ~loaded

\* An entry guard that does not look at the selected file.
EntryGuard_NoFileCheck == ffmpeg # Null /\ loaded

\* The entry guard of handleCompress (line 248) lets the call through.
EntryGuard == ffmpeg # Null /\ file # Null /\ loaded

\* handleCompress up to its first await (lines 248-264).
HandleCompress ==
    /\ lastOp' = Op("handleCompress", <<>>)
    /\ IF ~EntryGuard
       THEN UNCHANGED << runViewVars, error, runs >>
       ELSE /\ FreeRun # {}
            /\ processing' = TRUE
            /\ progress' = 0
            /\ progressText' = "preparing"
            /\ error' = Null
            /\ LET i == CHOOSE k \in FreeRun : \A j \in FreeRun : k <= j
               IN runs' = [runs EXCEPT ![i] =
                             Some([pc |-> "writeFile", file |-> file,
                                   preset |-> selectedPreset,
                                   args |-> << >>, exit |-> "none", wrote |-> FALSE,
                                   bitrate |-> ResolvedBitrate,
                                   sampleRate |-> ResolvedSampleRate,
                                   channels |-> ResolvedChannels])]
    /\ UNCHANGED << engineVars, file, fileInfo, paramVars, result, fs, mediaVars >>

\* A click on the compress button.
ClickCompress == CompressButtonRendered /\ ~CompressButtonDisabled /\ HandleCompress

AtPc(i, pc) == runs[i] # Null /\ Val(runs[i]).pc = pc
Goto(i, pc) == runs' = [runs EXCEPT ![i] = Some([Val(@) EXCEPT !.pc = pc])]

\* A catch with no finally after it: processing stays as it is.
RunFailed_NoFinally(i, cause) ==
    /\ error' = Some(<<"compressionFailed", cause>>)
    /\ processing' = processing
    /\ progressText' = progressText
    /\ runs' = [runs EXCEPT ![i] = Null]

\* catch and finally of handleCompress (lines 295-301).
RunFailed(i, cause) ==
    /\ error' = Some(<<"compressionFailed", cause>>)
    /\ processing' = FALSE
    /\ progressText' = ""
    /\ runs' = [runs EXCEPT ![i] = Null]

\* finally of handleCompress after the try block completed.
RunSettled(i) ==
    /\ processing' = FALSE
    /\ progressText' = ""
    /\ runs' = [runs EXCEPT ![i] = Null]

\* fetchFile / writeFile('input.mp3') resolved or rejected; on success the
\* argument list is built and exec is called.
WriteFileDone(i, ok) ==
    /\ AtPc(i, "writeFile")
    /\ lastOp' = Op("writeFile", <<>>)
    /\ IF ok
       THEN /\ Val(runs[i]).file # Null
            /\ fs' = [fs EXCEPT !.input = Some(Val(Val(runs[i]).file))]
            /\ runs' = [runs EXCEPT ![i] =
                         Some([Val(@) EXCEPT
                                 !.pc = "exec",
                                 !.args = ArgList(Val(runs[i]).bitrate,
                                                  Val(runs[i]).sampleRate,
                                                  Val(runs[i]).channels)])]
            /\ UNCHANGED << runViewVars, error >>
       ELSE /\ RunFailed(i, "writeFile")
            /\ UNCHANGED << progress, fs >>
    /\ UNCHANGED << engineVars, file, fileInfo, paramVars, result, mediaVars >>

\* How an exec call can end: exit status 0 with the output written, a non-zero
\* exit status with the workspace untouched or with a partial output, a throw.
ExecOutcomes == {"zero", "nonzero", "nonzeroPartial", "throws"}

\* The value an exec call that did not throw resolves to.
ExitOf(outcome) == IF outcome = "zero" THEN "zero" ELSE "nonzero"

\* The exec call wrote output.mp3 (the whole of it or a part).
Wrote(outcome) == outcome \in {"zero", "nonzeroPartial"}

\* exec resolved or rejected; its return value is not looked at (line 280),
\* readFile is called next.
ExecDone(i, outcome) ==
    /\ AtPc(i, "exec")
    /\ lastOp' = Op("exec", <<outcome>>)
    /\ IF outcome = "throws"
       THEN /\ RunFailed(i, "exec")
            /\ UNCHANGED << progress, fs >>
       ELSE /\ IF ~Wrote(outcome)
               THEN fs' = fs
               ELSE /\ fs.input # Null
                    /\ fs' = [fs EXCEPT !.output =
                                Some(Encoded(Val(fs.input), Val(runs[i]), outcome = "zero"))]
            /\ runs' = [runs EXCEPT ![i] =
                         Some([Val(@) EXCEPT !.pc = "readFile", !.exit = ExitOf(outcome),
                                            !.wrote = Wrote(outcome)])]
            /\ UNCHANGED << runViewVars, error >>
    /\ UNCHANGED << engineVars, file, fileInfo, paramVars, result, mediaVars >>

\* readFile('output.mp3') resolved (setResult, then deleteFile is called) or
\* rejected.
ReadFileDone(i, ok) ==
    /\ AtPc(i, "readFile")
    /\ lastOp' = Op("readFile", <<>>)
    /\ IF ok
       THEN /\ fs.output # Null
            /\ result' = Some([blob |-> Val(fs.output), size |-> Val(fs.output).size])
            /\ Goto(i, "deleteInput")
            /\ UNCHANGED << runViewVars, error >>
       ELSE /\ RunFailed(i, "readFile")
            /\ UNCHANGED << progress, result >>
    /\ UNCHANGED << engineVars, file, fileInfo, paramVars, fs, mediaVars >>

\* deleteFile('input.mp3') resolved or rejected.
DeleteInputDone(i, ok) ==
    /\ AtPc(i, "deleteInput")
    /\ lastOp' = Op("deleteInput", <<>>)
    /\ IF ok
       THEN /\ fs.input # Null
            /\ fs' = [fs EXCEPT !.input = Null]
            /\ Goto(i, "deleteOutput")
            /\ UNCHANGED << runViewVars, error >>
       ELSE /\ RunFailed(i, "deleteFile")
            /\ UNCHANGED << progress, fs >>
    /\ UNCHANGED << engineVars, file, fileInfo, paramVars, result, mediaVars >>

\* deleteFile('output.mp3') resolved or rejected; the run settles.
DeleteOutputDone(i, ok) ==
    /\ AtPc(i, "deleteOutput")
    /\ lastOp' = Op("deleteOutput", <<>>)
    /\ IF ok
       THEN /\ fs.output # Null
            /\ fs' = [fs EXCEPT !.output = Null]
            /\ RunSettled(i)
            /\ UNCHANGED << error >>
       ELSE /\ RunFailed(i, "deleteFile")
            /\ UNCHANGED << fs >>
    /\ UNCHANGED << engineVars, file, fileInfo, paramVars, progress, result, mediaVars >>

\* formatDuration(n / d): minutes, ':', seconds padded to two digits.
PadStart2(str) == IF Len(str) < 2 THEN "0" \o str ELSE str
FormatDuration(n, d) ==
    LET mins == n \div (60 * d)
        secs == (n % (60 * d)) \div d
    IN ToString(mins) \o ":" \o PadStart2(ToString(secs))

\* What a progress event of the engine carries: the fraction in thousandths
\* (the engine's estimate, which can pass 1) and the time in microseconds.
FractionInputs == {5, 500, 1000, 1010}
TimeInputs == {0, 1500000, 61000000}

\* The engine emits progress events while exec runs.
Executing == \E i \in 1..MaxRuns : AtPc(i, "exec")

\* The 'progress' handler registered in loadFFmpeg (lines 138-143).
ProgressEvent(fraction, time) ==
    /\ Executing
    /\ progress' = Round(fraction, 10)
    /\ progressText' = IF time > 0
                       THEN "processing " \o FormatDuration(time, 1000000)
                       ELSE progressText
    /\ lastOp' = Op("progress", << fraction, time >>)
    /\ UNCHANGED << engineVars, file, fileInfo, paramVars, processing, result, error,
                    workVars, mediaVars >>

\* The recompress button of the result section (line 554).
Recompress ==
    /\ result # Null /\ fileInfo # Null
    /\ result' = Null
    /\ lastOp' = Op("recompress", <<>>)
    /\ UNCHANGED << engineVars, file, fileInfo, paramVars, runViewVars, error, workVars,
                    mediaVars >>

\* ------------------------------------------------------------ handleDownload
\* name.replace(/\.[^/.]+$/, ''): a last '.' followed by at least one
\* character, none of them '/', is cut off with what follows it.
BaseName(name) ==
    LET dots == {i \in 1..Len(name) : name[i] = "."}
    IN IF dots = {} THEN name
       ELSE LET last == CHOOSE i \in dots : \A j \in dots : j <= i
            IN IF last < Len(name) /\ \A j \in (last + 1)..Len(name) : name[j] # "/"
               THEN SubSeq(name, 1, last - 1)
               ELSE name

\* `${originalName}_${bitrate}kbps.mp3` (lines 307-310), the bitrate as one
\* element of the name.
DownloadName ==
    BaseName(Val(file).name) \o << "_", ToString(ResolvedBitrate) \o "k", "bps.mp3" >>

\* handleDownload (lines 304-320): the anchor is clicked with that name.
HandleDownload ==
    /\ lastOp' = Op("handleDownload",
                    IF result = Null \/ file = Null THEN << >> ELSE DownloadName)
    /\ UNCHANGED << engineVars, file, fileInfo, paramVars, runViewVars, result, error,
                    workVars, mediaVars >>

\* A click on the download button of the result section (line 557).
ClickDownload == result # Null /\ fileInfo # Null /\ HandleDownload

\* ------------------------------------------------- what the page derives
\* The estimate block is rendered (line 492).
EstimateShown == file # Null /\ fileInfo # Null /\ result = Null /\ ~processing

\* The bitrate of the estimate (lines 493-494).
EstimateBitrate ==
    IF selectedPreset = "custom" THEN customBitrate ELSE FindPreset(selectedPreset).bitrate

\* Math.round(bitrate * 125 * fileInfo.duration)
EstimatedSize == Round(EstimateBitrate * 125 * Val(fileInfo).duration, 1)

\* An estimated ratio that never goes below zero.
CompressionRatio_Clamped ==
    IF EstimatedSize > Val(fileInfo).size THEN 0
    ELSE Round((Val(fileInfo).size - EstimatedSize) * 100, Val(fileInfo).size)

\* Math.round((1 - estimatedSize / fileInfo.size) * 100)
CompressionRatio ==
    Round((Val(fileInfo).size - EstimatedSize) * 100, Val(fileInfo).size)

\* The class and the text of the ratio (line 500): sign, then magnitude.
RatioClass == IF CompressionRatio > 0 THEN "positive" ELSE "negative"
RatioText ==
    IF CompressionRatio > 0 THEN << "-", CompressionRatio >>
    ELSE << "+", Abs(CompressionRatio) >>

\* The result section is rendered (line 517).
ResultShown == result # Null /\ fileInfo # Null

\* A saving that is zero for every output larger than the original.
Saved_Clamped ==
    IF Val(result).size > Val(fileInfo).size THEN 0
    ELSE Round((Val(fileInfo).size - Val(result).size) * 100, Val(fileInfo).size)

\* Math.round((1 - result.size / fileInfo.size) * 100)
Saved == Round((Val(fileInfo).size - Val(result).size) * 100, Val(fileInfo).size)

\* The label and the number of the third stat (lines 539-549).
SavedLabel == IF Saved >= 0 THEN "saved" ELSE "increased"
SavedNumber == IF Saved >= 0 THEN Saved ELSE Abs(Saved)

\* ---------------------------------------------------------- specifications
LoadStep == \E ok \in BOOLEAN : LoadFFmpegDone(ok)

SelectStep == \E f \in FileInputs : SelectFile(f)

ExtractStep ==
    \E i \in 1..MaxPending :
        \/ CoarseLoaded(i)
        \/ CoarseError(i)
        \/ ReaderLoaded(i)
        \/ ReaderError(i)
        \/ DecodeResolved(i)
        \/ DecodeRejected(i)

PresetStep == \E id \in PresetInputs : SelectPreset(id)

CustomStep ==
    \/ \E v \in BitrateInputs : ChooseCustomBitrate(v)
    \/ \E v \in SampleRateInputs : ChooseCustomSampleRate(v)
    \/ \E v \in ChannelInputs : ChooseCustomChannels(v)

RunStep ==
    \E i \in 1..MaxRuns :
        \/ \E ok \in BOOLEAN : WriteFileDone(i, ok)
        \/ \E outcome \in ExecOutcomes : ExecDone(i, outcome)
        \/ \E ok \in BOOLEAN : ReadFileDone(i, ok)
        \/ \E ok \in BOOLEAN : DeleteInputDone(i, ok)
        \/ \E ok \in BOOLEAN : DeleteOutputDone(i, ok)

ProgressStep ==
    \E fraction \in FractionInputs, time \in TimeInputs : ProgressEvent(fraction, time)

\* The application as the user drives it: every handler and callback. The
\* specifications below it each take the part of it that a group of
\* properties is about, so that the state space of each stays small.
Next ==
    \/ LoadStep
    \/ SelectStep
    \/ ExtractStep
    \/ PresetStep
    \/ CustomStep
    \/ ClickCompress
    \/ RunStep
    \/ ProgressStep
    \/ Recompress
    \/ ClickDownload

Spec == Init /\ [][Next]_vars

\* Engine load, file selection and metadata extraction, with selections
\* overlapping pending extractions.
NextExtract ==
    \/ LoadStep
    \/ SelectStep
    \/ ExtractStep

SpecExtract == Init /\ [][NextExtract]_vars

\* The user picks the next file once the metadata of the previous one is in.
SelectWhenIdle == PendingExtracts = {} /\ SelectStep

\* Compression runs against the engine.
NextRun ==
    \/ LoadStep
    \/ SelectWhenIdle
    \/ ExtractStep
    \/ ClickCompress
    \/ RunStep
    \/ Recompress

SpecRun == Init /\ [][NextRun]_vars

\* The state with the engine loaded and the metadata of the selected file in,
\* whatever the parameter controls hold.
Ready ==
    /\ ffmpeg = Some("ffmpegInstance")
    /\ loaded = TRUE
    /\ loading = FALSE
    /\ file = Some(FileA)
    /\ fileInfo = Some(DecodedInfo(FileA))
    /\ processing = FALSE
    /\ progress = 0
    /\ progressText = ""
    /\ result = Null
    /\ error = Null
    /\ fs = [input |-> Null, output |-> Null]
    /\ extracts = [i \in 1..MaxPending |-> Null]
    /\ objectUrls = {}
    /\ audioContexts = {}
    /\ runs = [i \in 1..MaxRuns |-> Null]
    /\ lastOp = Op("init", <<>>)

\* Ready, with the parameter controls as they start.
InitCustom ==
    /\ Ready
    /\ selectedPreset = "medium"
    /\ customBitrate = 128
    /\ customSampleRate = 44100
    /\ customChannels = 2

\* Compression runs with the preset cards and the custom selects in use.
NextCustom ==
    \/ PresetStep
    \/ CustomStep
    \/ ClickCompress
    \/ RunStep
    \/ Recompress

SpecCustom == InitCustom /\ [][NextCustom]_vars

\* The same with the download button in use.
NextDownload ==
    \/ NextCustom
    \/ ClickDownload

SpecDownload == InitCustom /\ [][NextDownload]_vars

\* Ready, with every parameter choice the controls allow.
InitParams ==
    /\ Ready
    /\ selectedPreset \in PresetIds
    /\ customBitrate \in bitrateOptions
    /\ customSampleRate \in sampleRateOptions
    /\ customChannels \in channelOptions

NextParams ==
    \/ ClickCompress
    \/ RunStep
    \/ Recompress

SpecParams == InitParams /\ [][NextParams]_vars

\* Runs with the progress events of the engine.
NextProgress ==
    \/ ClickCompress
    \/ RunStep
    \/ ProgressStep
    \/ Recompress

SpecProgress == InitCustom /\ [][NextProgress]_vars

\* Runs with the progress events of the engine, every engine call that is
\* pending being resolved or rejected in the end.
SpecSettle == InitCustom /\ [][NextProgress]_vars /\ WF_vars(RunStep)

\* handleCompress called as a function while no run is in flight, whatever
\* the compress button shows.
CallCompress == InFlight = {} /\ HandleCompress

NextHandler ==
    \/ LoadStep
    \/ SelectWhenIdle
    \/ ExtractStep
    \/ CallCompress
    \/ RunStep

SpecHandler == Init /\ [][NextHandler]_vars

\* The same, the load of the engine resolving or rejecting in the end.
SpecEngine == Init /\ [][NextHandler]_vars /\ WF_vars(LoadStep)

\* The engine is loaded and handleFileSelect has just taken a file of some
\* size and length; the preset is any of the catalog and, with custom, the
\* bitrate any of the select.
InitSizes ==
    /\ ffmpeg = Some("ffmpegInstance")
    /\ loaded = TRUE
    /\ loading = FALSE
    /\ \E f \in SizedFiles :
          /\ file = Some(f)
          /\ extracts = [i \in 1..MaxPending |->
                            IF i = 1 THEN Some([pc |-> "coarse", file |-> f]) ELSE Null]
          /\ lastOp = Op("handleFileSelect", f.name)
    /\ objectUrls = {1}
    /\ audioContexts = {}
    /\ fileInfo = Null
    /\ selectedPreset \in PresetIds
    /\ customBitrate \in bitrateOptions
    /\ (selectedPreset # "custom" => customBitrate = 128)
    /\ customSampleRate = 44100
    /\ customChannels = 2
    /\ processing = FALSE
    /\ progress = 0
    /\ progressText = ""
    /\ result = Null
    /\ error = Null
    /\ fs = [input |-> Null, output |-> Null]
    /\ runs = [i \in 1..MaxRuns |-> Null]

\* Extraction and preset changes over files of every size and length.
NextSizes ==
    \/ ExtractStep
    \/ PresetStep

SpecSizes == InitSizes /\ [][NextSizes]_vars

\* The engine is loaded and the metadata of a file of some size and length is
\* in; the preset and the custom bitrate as in InitSizes.
InitOutputs ==
    /\ ffmpeg = Some("ffmpegInstance")
    /\ loaded = TRUE
    /\ loading = FALSE
    /\ \E f \in SizedFiles :
          /\ file = Some(f)
          /\ fileInfo = Some(DecodedInfo(f))
          /\ lastOp = Op("decodeResolved", f.name)
    /\ extracts = [i \in 1..MaxPending |-> Null]
    /\ objectUrls = {}
    /\ audioContexts = {}
    /\ selectedPreset \in PresetIds
    /\ customBitrate \in bitrateOptions
    /\ (selectedPreset # "custom" => customBitrate = 128)
    /\ customSampleRate = 44100
    /\ customChannels = 2
    /\ processing = FALSE
    /\ progress = 0
    /\ progressText = ""
    /\ result = Null
    /\ error = Null
    /\ fs = [input |-> Null, output |-> Null]
    /\ runs = [i \in 1..MaxRuns |-> Null]

\* Runs over files of every size and length.
SpecOutputs == InitOutputs /\ [][NextParams]_vars
\* ==================================================================== claims

CompressClickable == CompressButtonRendered /\ ~CompressButtonDisabled

\* C1. Every run that got past the entry guard has removed input.mp3 and
\* output.mp3 by the time it settles, on the success path and on every
\* failure path: whenever no run is in flight the workspace holds neither.
C1_WorkspaceCleanWhenIdle ==
    InFlight = {} => (fs.input = Null /\ fs.output = Null)

\* C2. At most one compression run is in flight at any time: while a run has
\* not settled no second call of handleCompress gets through, so the engine
\* calls of two runs never overlap.
C2_SingleRunInFlight ==
    /\ Cardinality(InFlight) <= 1
    /\ (InFlight # {} => (processing /\ ~CompressClickable))

\* exec is pending for the one run in flight; the compress button is rendered
\* and disabled.
C2_SecondClickBlocked ==
    /\ Cardinality(InFlight) = 1
    /\ CompressButtonRendered
    /\ CompressButtonDisabled
    /\ \E i \in InFlight : Val(runs[i]).pc = "exec"

\* C3. The latest selection wins: once the metadata of the selected file is
\* stored, the late result of an earlier selection never replaces it while
\* that file stays selected.
C3_LatestSelectionWins ==
    [][ ( /\ file # Null /\ fileInfo # Null
          /\ Val(fileInfo).name = Val(file).name
          /\ file' = file )
        => ( fileInfo' # Null /\ Val(fileInfo').name = Val(file').name ) ]_vars

\* C4. A call of handleCompress with the engine not loaded or with no file
\* selected changes nothing (processing, progress, progressText, error,
\* result) and issues no engine call; a run begins only in a call of
\* handleCompress made with the engine loaded and a file selected, never later.
C4_RejectedSynchronously ==
    [][ /\ ( ( lastOp'.op = "handleCompress"
               /\ (ffmpeg = Null \/ ~loaded \/ file = Null) )
             => UNCHANGED << processing, progress, progressText, error, result, fs, runs >> )
        /\ ( (\E i \in 1..MaxRuns : runs[i] = Null /\ runs'[i] # Null)
             => ( lastOp'.op = "handleCompress"
                  /\ ffmpeg # Null /\ loaded /\ file # Null ) ) ]_vars

\* handleCompress was called with a file selected and the engine load failed.
C4_CalledWhileNotLoaded ==
    /\ lastOp.op = "handleCompress"
    /\ file # Null
    /\ ~loading /\ ~loaded
    /\ ~processing /\ InFlight = {}

\* C5. The argument list submitted to exec is '-i','input.mp3','-b:a',
\* '<bitrate>k', then '-ar','<sampleRate>' iff the sample rate is not null,
\* then '-ac','<channels>' iff the channel count is not null, then
\* '-map','0:a','-y','output.mp3'; lossless submits no '-ar', and custom
\* 320 / 16000 / 1 submits '320k', '-ar 16000', '-ac 1'.
C5_Expected(bitrate, sampleRate, channels) ==
    << "-i", "input.mp3", "-b:a", ToString(bitrate) \o "k" >>
    \o (IF sampleRate # Null THEN << "-ar", ToString(Val(sampleRate)) >> ELSE << >>)
    \o (IF channels # Null THEN << "-ac", ToString(Val(channels)) >> ELSE << >>)
    \o << "-map", "0:a", "-y", "output.mp3" >>

C5_CustomArgs ==
    << "-i", "input.mp3", "-b:a", "320k", "-ar", "16000", "-ac", "1",
       "-map", "0:a", "-y", "output.mp3" >>

C5_LosslessArgs ==
    << "-i", "input.mp3", "-b:a", "320k", "-ac", "2", "-map", "0:a", "-y", "output.mp3" >>

C5_ArgumentList ==
    \A i \in InFlight :
        LET r == Val(runs[i]) IN
        r.pc # "writeFile" =>
            /\ r.args = C5_Expected(r.bitrate, r.sampleRate, r.channels)
            /\ (r.preset = "lossless" => r.args = C5_LosslessArgs)
            /\ ( ( /\ r.preset = "custom" /\ r.bitrate = 320
                   /\ r.sampleRate = Some(16000) /\ r.channels = Some(1) )
                 => r.args = C5_CustomArgs )

\* exec is pending for a custom run of 320 kbps, 16000 Hz, mono.
C5_CustomExecPending ==
    \E i \in InFlight :
        /\ Val(runs[i]).pc = "exec"
        /\ Val(runs[i]).preset = "custom"
        /\ Val(runs[i]).args = C5_CustomArgs

\* C6. A run started with a preset other than custom uses that preset's
\* catalog bitrate, sample rate and channels, whatever the custom values are;
\* a run started with custom uses customBitrate, customSampleRate and
\* customChannels, whatever the catalog holds for custom.
C6_ParameterResolution ==
    [][ \A i \in 1..MaxRuns :
          (runs[i] = Null /\ runs'[i] # Null) =>
            LET r == Val(runs'[i]) IN
            IF selectedPreset = "custom"
            THEN /\ r.bitrate = customBitrate
                 /\ r.sampleRate = Some(customSampleRate)
                 /\ r.channels = Some(customChannels)
            ELSE \A k \in 1..Len(presets) :
                    presets[k].id = selectedPreset =>
                        /\ r.bitrate = presets[k].bitrate
                        /\ r.sampleRate = presets[k].sampleRate
                        /\ r.channels = presets[k].channels ]_vars

\* A custom run whose three values all differ from the catalog's custom entry.
C6_CustomRunStarted ==
    \E i \in InFlight :
        /\ Val(runs[i]).preset = "custom"
        /\ Val(runs[i]).pc = "writeFile"
        /\ Val(runs[i]).bitrate = 48
        /\ Val(runs[i]).sampleRate = Some(11025)
        /\ Val(runs[i]).channels = Some(1)

\* C7. customBitrate, customSampleRate and customChannels stay in their legal
\* sets; choosing a value outside its set leaves the stored value unchanged,
\* and no custom run carries a value outside the sets.
C7_Bitrates == {32, 48, 64, 80, 96, 112, 128, 160, 192, 256, 320}
C7_SampleRates == {11025, 16000, 22050, 32000, 44100, 48000}
C7_Channels == {1, 2}

C7_Confined ==
    /\ customBitrate \in C7_Bitrates
    /\ customSampleRate \in C7_SampleRates
    /\ customChannels \in C7_Channels
    /\ \A i \in InFlight :
          Val(runs[i]).preset = "custom" =>
              /\ Val(runs[i]).bitrate \in C7_Bitrates
              /\ Val(Val(runs[i]).sampleRate) \in C7_SampleRates
              /\ Val(Val(runs[i]).channels) \in C7_Channels

C8_FineDecodeFallback ==
    [][ lastOp'.op = "decodeRejected" =>
          \E f \in FileInputs :
              /\ f.name = lastOp'.arg
              /\ fileInfo' # Null
              /\ Val(fileInfo').sampleRate = 44100
              /\ Val(fileInfo').channels = 2
              /\ Val(fileInfo').name = DecodedInfo(f).name
              /\ Val(fileInfo').size = DecodedInfo(f).size
              /\ Val(fileInfo').duration = DecodedInfo(f).duration
              /\ Val(fileInfo').bitrate = DecodedInfo(f).bitrate
              /\ error' = error ]_vars

\* The decode of a.mp3 was rejected and its metadata is stored with no error.
C8_FallbackStored ==
    /\ lastOp.op = "decodeRejected"
    /\ lastOp.arg = FileA.name
    /\ fileInfo # Null
    /\ Val(fileInfo).sampleRate = 44100
    /\ Val(fileInfo).bitrate = 160
    /\ Val(fileInfo).duration = 240
    /\ error = Null

\* C9. After the media element reported an error the failure is shown and
\* the pipeline is back in the pre-upload state: no file selected, no
\* metadata held, and no compression run can be started.
C9_UnreadableBackToPreUpload ==
    lastOp.op = "audio.onerror" =>
        /\ error # Null
        /\ file = Null
        /\ fileInfo = Null
        /\ ~CompressClickable

\* C10. A run whose exec call returned a non-zero exit status publishes no
\* result.
C10_NoResultAfterExecFailure ==
    \A i \in InFlight : Val(runs[i]).exit = "nonzero" => result = Null

\* C11. The stored original bitrate is round(size * 8 / duration / 1000) for
\* every byte size and duration, halves rounded up, and it is that value after
\* a successful fine decode and after the fallback alike.
C11_IsRounded(b, n, d) == 2 * b * d - d <= 2 * n /\ 2 * n < 2 * b * d + d

C11_BitrateRounded ==
    /\ fileInfo # Null =>
          C11_IsRounded(Val(fileInfo).bitrate,
                        Val(fileInfo).size * 8, Val(fileInfo).duration * 1000)
    /\ \A f \in SizedFiles : DecodedInfo(f).bitrate = FallbackInfo(f).bitrate

\* The fallback stored bitrate 1 for 125 bytes in 2 seconds (0.5 kbps).
C11_HalfRoundedUpInFallback ==
    /\ lastOp.op = "decodeRejected"
    /\ fileInfo # Null
    /\ Val(fileInfo).size = 125
    /\ Val(fileInfo).duration = 2
    /\ Val(fileInfo).bitrate = 1

\* C12. Whenever the estimate is shown, estimatedBytes is bitrateKbps * 125 *
\* durationSeconds for the bitrate of the currently selected preset (the custom
\* bitrate with custom), the ratio is round((1 - estimatedBytes /
\* originalBytes) * 100), a negative ratio stays negative and is shown with its
\* own class and sign, apart from a positive one; 10,485,760 bytes of 240
\* seconds at 128 kbps give 3,840,000 bytes and 63.
C12_Nearest(r, n, d) == 2 * Abs(r * d - n) <= d

C12_Bitrate ==
    IF selectedPreset = "custom" THEN customBitrate
    ELSE LET k == CHOOSE j \in 1..Len(presets) : presets[j].id = selectedPreset
         IN presets[k].bitrate

C12_ExampleShown ==
    /\ EstimateShown
    /\ Val(fileInfo).size = 10485760
    /\ Val(fileInfo).duration = 240
    /\ EstimateBitrate = 128

\* C13. Whenever the result is shown, savedPercent is round((1 - outputBytes /
\* originalBytes) * 100); a value >= 0 is labeled saved, a value < 0 increased
\* with its magnitude; an output larger than the original by more than half a
\* percent is never reported as 0 or as a saving.
C13_SavedPercent ==
    ResultShown =>
        LET orig == Val(fileInfo).size
            out == Val(result).size
        IN /\ C12_Nearest(Saved, (orig - out) * 100, orig)
           /\ (Saved >= 0 => (SavedLabel = "saved" /\ SavedNumber = Saved))
           /\ (Saved < 0 => (SavedLabel = "increased" /\ SavedNumber = 0 - Saved))
           /\ (2 * (out - orig) * 100 > orig =>
                  (SavedLabel = "increased" /\ SavedNumber > 0))

\* 7,990 bytes of 2 seconds came out of a 320 kbps run as 80,000 bytes:
\* increased, 901.
C13_IncreaseShown ==
    /\ ResultShown
    /\ Val(fileInfo).size = 7990
    /\ Val(result).size = 80000
    /\ SavedLabel = "increased"
    /\ SavedNumber = 901

\* C13 as stated: an output larger than the original, by however little, is
\* never reported as 0 or as a saving.
C13_LargerNeverSaved ==
    (ResultShown /\ Val(result).size > Val(fileInfo).size) =>
        (SavedLabel = "increased" /\ SavedNumber # 0)

\* C14. For every progress event the stored percentage is round(fraction *
\* 100), a whole number in 0..100, and it is the one of the most recent event
\* whatever the events before it were; an elapsed time above zero is shown as
\* minutes:seconds.
C14_ProgressForwarded ==
    [][ lastOp'.op = "progress" =>
          /\ C12_Nearest(progress', lastOp'.arg[1], 10)
          /\ progress' \in 0..100
          /\ (lastOp'.arg[2] = 61000000 => progressText' = "processing 1:01")
          /\ (lastOp'.arg[2] = 1500000 => progressText' = "processing 0:01") ]_vars

\* C15. A result comes into existence only when a run has succeeded (its exec
\* returned success and its output was read), and then holds that run's output
\* buffer and its byte size; it goes away only by recompress or by a new file
\* selection; a run starts only while no result is held.
C15_Created ==
    [][ (result' # Null /\ result' # result) =>
          /\ lastOp'.op = "readFile"
          /\ \E i \in InFlight :
                LET r == Val(runs[i]) IN
                /\ r.pc = "readFile"
                /\ r.exit = "zero"
                /\ Val(result').blob = Encoded(Val(r.file), r, TRUE)
                /\ Val(result').size = Val(result').blob.size ]_vars

C15_Kept ==
    [][ /\ ( (result # Null /\ result' = Null)
               => lastOp'.op \in {"recompress", "handleFileSelect"} )
        /\ ( (\E i \in 1..MaxRuns : runs[i] = Null /\ runs'[i] # Null)
               => result = Null ) ]_vars

C15_ResultLifecycle == C15_Created /\ C15_Kept

\* C16. The download file name is '<base name>_<bitrate>kbps.mp3', the
\* bitrate being the one the run that produced the held result was encoded
\* with ('-b:a <bitrate>k'), whatever preset or custom bitrate changes were
\* made, also during that run.
C16_DownloadNamesRunBitrate ==
    (lastOp.op = "handleDownload" /\ result # Null) =>
        /\ Len(lastOp.arg) = Len(BaseName(Val(file).name)) + 3
        /\ SubSeq(lastOp.arg, 1, Len(lastOp.arg) - 3) = BaseName(Val(file).name)
        /\ lastOp.arg[Len(lastOp.arg) - 2] = "_"
        /\ lastOp.arg[Len(lastOp.arg) - 1] = Val(result).blob.args[4]
        /\ lastOp.arg[Len(lastOp.arg)] = "bps.mp3"

\* C17. While the extraction of the selected file is pending, no compression
\* run can be started for it and no estimate is shown that comes from the
\* metadata of another file.
C17_SelectedPending ==
    /\ file # Null
    /\ \E i \in PendingExtracts : Val(extracts[i]).file = Val(file)

C17_NoRunWhilePending == C17_SelectedPending => ~CompressClickable

C17_NoForeignEstimate ==
    (C17_SelectedPending /\ EstimateShown) => Val(fileInfo).name = Val(file).name

C17_NotReadyWhilePending == C17_NoRunWhilePending /\ C17_NoForeignEstimate

\* C18. Every object URL created and every AudioContext opened by an
\* extraction is released by the time the extraction ends, however it ends:
\* what is open belongs to an extraction that is still pending.
C18_ResourcesReleased ==
    \A i \in objectUrls \cup audioContexts : extracts[i] # Null

\* C19. A run goes Idle, StagingInput (writeFile), Executing (exec),
\* Retrieving (readFile), CleaningUp (deleteFile), Idle: each engine call is
\* issued only after the one before it has completed, and a run settles,
\* after success and after a failure alike, only out of CleaningUp.
C19_Order ==
    << << "writeFile", "exec" >>, << "exec", "readFile" >>,
       << "readFile", "deleteInput" >>, << "deleteInput", "deleteOutput" >> >>

C19_StepsInOrder ==
    [][ \A i \in 1..MaxRuns :
          /\ ( (runs[i] = Null /\ runs'[i] # Null) => Val(runs'[i]).pc = "writeFile" )
          /\ ( (runs[i] # Null /\ runs'[i] # Null /\ Val(runs'[i]).pc # Val(runs[i]).pc)
                => \E k \in 1..Len(C19_Order) :
                      C19_Order[k] = << Val(runs[i]).pc, Val(runs'[i]).pc >> ) ]_vars

C19_SettlesAfterCleanup ==
    [][ \A i \in 1..MaxRuns :
          (runs[i] # Null /\ runs'[i] = Null)
              => ( /\ Val(runs[i]).pc \in {"deleteInput", "deleteOutput"}
                   /\ ~processing' ) ]_vars

C19_StateMachine == C19_StepsInOrder /\ C19_SettlesAfterCleanup

\* C20. The step in which a run fails leaves processing false, the progress
\* text empty, the progress percentage back at 0 and one error message set,
\* with no run in flight; a run starts only in a call of handleCompress.
C20_RunFails(i) ==
    /\ runs[i] # Null /\ runs'[i] = Null
    /\ error' # error /\ error' # Null

C20_ClearedOnFailure ==
    [][ \A i \in 1..MaxRuns :
          C20_RunFails(i) =>
              /\ ~processing'
              /\ progressText' = ""
              /\ progress' = 0
              /\ Val(error')[1] = "compressionFailed"
              /\ \A j \in 1..MaxRuns : runs'[j] = Null ]_vars

C20_NoRetry ==
    [][ (\E i \in 1..MaxRuns : runs[i] = Null /\ runs'[i] # Null)
          => lastOp'.op = "handleCompress" ]_vars

C20_FailureClearsProgress == C20_ClearedOnFailure /\ C20_NoRetry

\* C21. A deleteFile call that fails changes nothing of what is shown about
\* the run: the error message and the result are after it what they were
\* before it, so a run whose write, exec and read succeeded shows its result
\* with no error message.
C21_CleanupFailureNotShown ==
    [][ lastOp'.op \in {"deleteInput", "deleteOutput"} =>
          (error' = error /\ result' = result) ]_vars

\* C22. Whenever a result is held together with a selected file and its
\* metadata, the result is the output of a run on that file: the original
\* size shown, the percentage and the download base name all belong to the
\* file the output was encoded from.
C22_ResultOfSelectedFile ==
    (result # Null /\ file # Null /\ fileInfo # Null) =>
        /\ Val(result).blob.src = Val(file).name
        /\ Val(result).blob.src = Val(fileInfo).name

\* C23. The buffer a run publishes is the output.mp3 that the exec call of
\* that run wrote from the input that run staged: a readFile that succeeds
\* never hands a run an output.mp3 left behind by an earlier run.
C23_ReadsOwnOutput ==
    [][ \A i \in 1..MaxRuns :
          ( /\ runs[i] # Null /\ Val(runs[i]).pc = "readFile"
            /\ runs'[i] # Null /\ Val(runs'[i]).pc = "deleteInput" )
          => ( /\ Val(runs[i]).wrote
               /\ result' # Null
               /\ Val(result').blob.src = Val(Val(runs[i]).file).name
               /\ Val(result').blob.args = Val(runs[i]).args ) ]_vars

\* C24. Every started run settles: with every pending engine call resolved
\* or rejected in the end, a run in flight leads to no run in flight and
\* processing false, after success and after every failure.
C24_EveryRunSettles == (InFlight # {}) ~> (InFlight = {} /\ ~processing)

\* A run that had progress events has just ended in the catch after its exec
\* was rejected, and the compress button is enabled again.
C24_SettledAfterFailure ==
    /\ lastOp.op = "exec"
    /\ progress = 50
    /\ InFlight = {}
    /\ ~processing
    /\ error # Null
    /\ CompressClickable

\* C25. The engine is loaded once and ends ready or failed: loading becomes
\* false in the end and stays false; loaded becomes true only in the step in
\* which the load succeeds, with the engine instance set, and never goes back
\* to false; a load that fails sets the error message and leaves loaded
\* false for good, and then no run starts and no engine call is issued.
C25_Definite ==
    /\ (loaded => (ffmpeg # Null /\ ~loading))
    /\ ((~loading /\ ~loaded) =>
           (ffmpeg = Null /\ InFlight = {} /\ fs.input = Null /\ fs.output = Null))

C25_Steps ==
    /\ (lastOp'.op = "loadFFmpeg" => (loading /\ ~loading'))
    /\ (~loading => ~loading')
    /\ (loaded => loaded')
    /\ ((~loaded /\ loaded') => lastOp'.op = "loadFFmpeg")
    /\ ((lastOp'.op = "loadFFmpeg" /\ ~loaded') =>
           (error' # Null /\ Val(error') = <<"loadEngineFailed">>))
    /\ ((~loading /\ ~loaded) => ~loaded')

====
